---- MODULE Spec2Model ----
(***************************************************************************)
(* Eye-Dome Lighting for potree-core: PotreeRenderer (state coordinator),  *)
(* EDLPass (pass orchestrator), ScreenPass (fullscreen pass runner) and    *)
(* the part of EyeDomeLightingMaterial that the orchestrator drives.       *)
(*                                                                         *)
(* Representation:                                                         *)
(*  - a layers.mask (a 32-bit bitset) is the set of its set bit indices,   *)
(*    so  a & ~b  is  a \ b  and  1 << n  is  {n % 32};                    *)
(*  - strength, radius and opacity are counted in tenths (0.4 is 4);       *)
(*  - devicePixelRatio and neighbourCount, which the code floors, are      *)
(*    counted in units of 1/Scale (with Scale = 2, 1.5 is 3);              *)
(*  - one render call is one action; the GL calls it issues are recorded   *)
(*    in order in `frame`.                                                 *)
(***************************************************************************)
EXTENDS Integers, Sequences, FiniteSets, TLC

VARIABLES
    edlOptions,           \* PotreeRenderer.edlOptions
    edlPass,              \* PotreeRenderer.edlPass: None (null) or Some(EDLPass)
    lastPointClouds,      \* PotreeRenderer.lastPointClouds: None (null) or Some(point clouds)
    overriddenMaterials,  \* PotreeRenderer.overriddenMaterials: material -> None or Some(flags)
    overriddenLayerMasks, \* PotreeRenderer.overriddenLayerMasks: point cloud -> None or Some(mask)
    matOf,                \* pco.material: point cloud -> material
    useEDL,               \* material.useEDL
    weighted,             \* material.weighted
    mask,                 \* pco.layers.mask (root of the subtree)
    kids,                 \* layers.mask of each descendant of the point cloud, in creation order
    renderer,             \* WebGLRenderer state: autoClear, render target, clear colour/alpha
    device,               \* WebGLRenderer capabilities, size and pixel ratio
    camera,               \* Camera: layers.mask and the two type flags
    frame,                \* GL calls issued by the last render call, in order
    thrown,               \* the last call raised an error
    call,                 \* the last call made and what it was given
    pre,                  \* renderer, camera and target as they were when the last call started
    writes,               \* fields of point clouds written by the last call
    given,                \* per parameter, the value of the last setEDL call that supplied it
    trip,                 \* the point cloud followed through an enable ... disable round trip
    ran,                  \* the last run of applyEDLState and how the last call relates to it
    cycle,                \* the watched point cloud through override, restore, edit, override, restore
    life,                 \* the EDLPass objects constructed and disposed of so far
    pixel                 \* the last fragment the compositing shader ran on, and its output

vars == <<edlOptions, edlPass, lastPointClouds, overriddenMaterials, overriddenLayerMasks,
          matOf, useEDL, weighted, mask, kids, renderer, device, camera, frame, thrown,
          call, pre, writes, given, trip, ran, cycle, life,
          pixel>>

\* undefined and null are the empty tuple; a value v that is present is <<v>>
None == <<>>
Some(v) == <<v>>
Get(o) == o[1]
\* a ?? b
Coalesce(a, b) == IF a # None THEN a ELSE b

Max(a, b) == IF a >= b THEN a ELSE b
Min(a, b) == IF a <= b THEN a ELSE b

(***************************************************************************)
(* Bounds and program constants                                            *)
(***************************************************************************)
MaxKids == 1                 \* descendants streamed into one point cloud
MaxNeighbours == 2           \* NEIGHBOUR_COUNT of the shader runs
Scale == 2                   \* fractional inputs are multiples of 1/Scale

DefaultLayer == 1            \* pointCloudLayer ?? 1
DefaultStrength == 4         \* EDLPass.edlStrength = 0.4
DefaultRadius == 14          \* EDLPass.radius = 1.4
DefaultOpacity == 10         \* EDLPass.opacity = 1.0
DefaultNeighbourCount == 8   \* EDLPass.neighbourCount = 8
Black == 0                   \* 0x000000

PCs == {"pcA", "pcB"}
Mats == {"matA", "matB"}
OwnMaterial == [p \in PCs |-> IF p = "pcA" THEN "matA" ELSE "matB"]
SharedMaterial == [p \in PCs |-> "matA"]

\* 1 << n on 32-bit integers
Bit(n) == {n % 32}

(***************************************************************************)
(* GL call log                                                             *)
(***************************************************************************)
Ev(op, target, m, what, arg) ==
    [op |-> op, target |-> target, mask |-> m, what |-> what, arg |-> arg]
Emit(w, e) == [w EXCEPT !.log = Append(@, e)]

\* renderer.setRenderTarget(t)
setRenderTarget(w, t) ==
    Emit([w EXCEPT !.renderer.target = t], Ev("setRenderTarget", t, {}, "-", <<>>))

\* renderer.clear(true, true, true): clears the bound target with the current clear colour
clear(w) ==
    Emit(w, Ev("clear", w.renderer.target, {}, "-",
                <<w.renderer.clearColor, w.renderer.clearAlpha>>))

\* renderer.render(scene, camera): with autoClear the bound target is cleared first
rendererRender(w, what, m) ==
    LET c == IF w.renderer.autoClear THEN Emit(w, Ev("autoClear", w.renderer.target, {}, "-", <<>>)) ELSE w
    IN  Emit(c, Ev("render", c.renderer.target, m, what, <<>>))

(***************************************************************************)
(* EyeDomeLightingMaterial                                                 *)
(***************************************************************************)
Num(n) == n * Scale                      \* the number n in units of 1/Scale
Floor(x) == (x \div Scale) * Scale       \* Math.floor, in units of 1/Scale

\* initializeNeighboursArray: new Float32Array(neighbourCount * 2), its length
TableLength(neighbourCount) == (neighbourCount * 2) \div Scale

\* getDefines: the number that follows "#define NEIGHBOUR_COUNT", in units of 1/Scale
getDefines(neighbourCount) == neighbourCount

\* new EyeDomeLightingMaterial(): uniforms, neighbour table and the NEIGHBOUR_COUNT that
\* prefixes each shader source; `assigned` remembers the last value given to the setter
NewMaterial ==
    [neighbourCount |-> Num(DefaultNeighbourCount),
     neighboursLen  |-> TableLength(Num(DefaultNeighbourCount)),
     vertexShader   |-> getDefines(Num(DefaultNeighbourCount)),
     fragmentShader |-> getDefines(Num(DefaultNeighbourCount)),
     assigned       |-> None,
     screenWidth    |-> 1,
     screenHeight   |-> 1,
     edlStrength    |-> 10,
     radius         |-> 14,
     opacity        |-> 10,
     colorMap       |-> None,
     uProj          |-> "zero"]

\* variant: floored but not raised to one
NormaliseWithoutLowerLimit(value) == Floor(value)

\* Math.max(1, Math.floor(value))
NormaliseNeighbourCount(value) == Max(Num(1), Floor(value))

\* variant: the value itself, not the normalised count, is compared with the current count
NeedsRebuildComparingValue(current, value, next) == current # value

\* set neighbourCount: if (this._neighbourCount !== next)
NeedsRebuild(current, value, next) == current # next

\* set neighbourCount(value): table and shader source are rebuilt only on a change
SetMaterialNeighbourCount(w, value) ==
    LET next == NormaliseNeighbourCount(value)
        a == [w EXCEPT !.pass.mat.assigned = Some(value)]
    IN  IF NeedsRebuild(a.pass.mat.neighbourCount, value, next)
        THEN Emit([a EXCEPT !.pass.mat.neighbourCount = next,
                            !.pass.mat.neighboursLen = TableLength(next),
                            !.pass.mat.vertexShader = getDefines(next),
                            !.pass.mat.fragmentShader = getDefines(next)],
                  Ev("updateShaderSource", "-", {}, "-", <<next \div Scale>>))
        ELSE a

(***************************************************************************)
(* edl.fs, the compositing fragment shader.  Alpha, depth, strength,       *)
(* radius and opacity are in tenths; sums of depth differences too.        *)
(***************************************************************************)
\* variant: alpha is taken as the depth, 1.0 included
DepthOfAlphaUnmapped(alpha) == alpha

\* (a == 1.0) ? 0.0 : a
DepthOfAlpha(alpha) == IF alpha = 10 THEN 0 ELSE alpha

\* response(depth), the loop: the sum over the neighbours sampled so far
RECURSIVE ResponseSum(_, _)
ResponseSum(depth, neighbourAlphas) ==
    IF neighbourAlphas = <<>> THEN 0
    ELSE LET neighbourDepth == DepthOfAlpha(neighbourAlphas[Len(neighbourAlphas)])
             rest == ResponseSum(depth, SubSeq(neighbourAlphas, 1, Len(neighbourAlphas) - 1))
         IN  IF neighbourDepth # 0
             THEN rest + (IF depth = 0 THEN 1000 ELSE Max(0, depth - neighbourDepth))
             ELSE rest

\* main(): the fragment's outputs.  exp and pow are not evaluated: fragColor carries
\* the exponent -res * factor of the shade as a fraction and fragDepth the exponent of dl
main(u, alpha, neighbourAlphas) ==
    LET depth == DepthOfAlpha(alpha)
        sum == ResponseSum(depth, neighbourAlphas)
        factor == u.edlStrength * 300
    IN  IF depth = 0
        THEN [discarded |-> TRUE, fragColor |-> None, fragDepth |-> None]
        ELSE [discarded |-> FALSE,
              fragColor |-> Some([shadeNum |-> 0 - sum * factor,
                                  shadeDen |-> Len(neighbourAlphas),
                                  opacity  |-> u.opacity]),
              fragDepth |-> Some(depth)]

(***************************************************************************)
(* ScreenPass                                                              *)
(***************************************************************************)
\* variant: the target is cleared before the quad is drawn
ScreenPassRenderClearing(w, target) ==
    LET oldTarget == w.renderer.target
        a == clear(setRenderTarget(w, target))
        b == rendererRender(a, "quad", {0})
    IN  setRenderTarget(b, oldTarget)

\* ScreenPass.render(renderer, material, target)
ScreenPassRender(w, target) ==
    LET oldTarget == w.renderer.target
        a == setRenderTarget(w, target)
        b == rendererRender(a, "quad", {0})
    IN  setRenderTarget(b, oldTarget)

(***************************************************************************)
(* EDLPass                                                                 *)
(***************************************************************************)
\* new EDLPass(): a 1x1 half-float target, a material and a screen pass
NewEDLPass ==
    [edlStrength    |-> DefaultStrength,
     radius         |-> DefaultRadius,
     opacity        |-> DefaultOpacity,
     neighbourCount |-> Num(DefaultNeighbourCount),
     rtTypeChecked  |-> FALSE,
     rt             |-> [gen |-> 0, type |-> "HalfFloatType", width |-> 1, height |-> 1],
     mat            |-> NewMaterial]

\* variant: only a perspective camera is accepted
isPerspectiveCameraOnly(cam) == cam.isPerspectiveCamera = TRUE

isPerspectiveOrOrthographicCamera(cam) ==
    cam.isPerspectiveCamera = TRUE \/ cam.isOrthographicCamera = TRUE

\* variant: the highest precision an extension offers, whatever the context version
DesiredTypeIgnoringContext(isWebGL2, hasColorBufferFloat, hasColorBufferHalfFloat) ==
    IF hasColorBufferFloat THEN "FloatType"
    ELSE IF hasColorBufferHalfFloat THEN "HalfFloatType"
    ELSE "UnsignedByteType"

\* the pixel type ensureRenderTargetType asks for
DesiredType(isWebGL2, hasColorBufferFloat, hasColorBufferHalfFloat) ==
    IF isWebGL2 /\ hasColorBufferFloat THEN "FloatType"
    ELSE IF ~isWebGL2 /\ (hasColorBufferHalfFloat \/ hasColorBufferFloat) THEN "HalfFloatType"
    ELSE "UnsignedByteType"

\* variant: the result of the probe is not remembered, every frame probes again
ensureRenderTargetTypeEveryFrame(w) ==
    LET b == Emit(w, Ev("getExtension", "-", {}, "-", <<>>))
        desiredType ==
            DesiredType(w.device.isWebGL2,
                        w.device.EXT_color_buffer_float \/ w.device.WEBGL_color_buffer_float,
                        w.device.EXT_color_buffer_half_float)
        rt == b.pass.rt
    IN  IF rt.type # desiredType
        THEN Emit(Emit([b EXCEPT !.pass.rt.gen = @ + 1, !.pass.rt.type = desiredType],
                       Ev("dispose", "rtEDL", {}, "-", <<rt.gen, rt.width, rt.height>>)),
                  Ev("create", "rtEDL", {}, "-", <<rt.gen + 1, rt.width, rt.height>>))
        ELSE b

\* EDLPass.ensureRenderTargetType(renderer)
ensureRenderTargetType(w) ==
    IF w.pass.rtTypeChecked THEN w
    ELSE
      LET hasColorBufferFloat ==
              w.device.EXT_color_buffer_float \/ w.device.WEBGL_color_buffer_float
          hasColorBufferHalfFloat == w.device.EXT_color_buffer_half_float
          desiredType == DesiredType(w.device.isWebGL2, hasColorBufferFloat, hasColorBufferHalfFloat)
          rt == w.pass.rt
          created == [gen |-> rt.gen + 1, type |-> desiredType,
                      width |-> rt.width, height |-> rt.height]
          b == Emit([w EXCEPT !.pass.rtTypeChecked = TRUE],
                    Ev("getExtension", "-", {}, "-", <<>>))
      IN  IF rt.type # desiredType
          THEN Emit([Emit(b, Ev("dispose", "rtEDL", {}, "-", <<rt.gen, rt.width, rt.height>>))
                        EXCEPT !.pass.rt = created],
                    Ev("create", "rtEDL", {}, "-", <<created.gen, created.width, created.height>>))
          ELSE b

\* variant: no lower limit of one pixel
TargetSizeUnclamped(size, dpr) == (size * dpr) \div Scale

\* Math.max(1, Math.floor(size * dpr)), dpr in units of 1/Scale
TargetSize(size, dpr) == Max(1, (size * dpr) \div Scale)

\* EDLPass.resizeToRenderer(renderer)
resizeToRenderer(w) ==
    LET width  == TargetSize(w.device.width, w.device.dpr)
        height == TargetSize(w.device.height, w.device.dpr)
    IN  IF w.pass.rt.width # width \/ w.pass.rt.height # height
        THEN Emit([w EXCEPT !.pass.rt.width = width, !.pass.rt.height = height],
                  Ev("setSize", "rtEDL", {}, "-", <<width, height>>))
        ELSE w

\* variant: the first pass keeps the camera's whole mask
PassAMaskUnrestricted(oldLayerMask, pointCloudLayer) == oldLayerMask

\* camera mask of the first pass: everything the camera saw except the point-cloud layer
PassAMask(oldLayerMask, pointCloudLayer) == oldLayerMask \ Bit(pointCloudLayer)

\* camera mask of the second pass: the point-cloud layer alone
PassBMask(pointCloudLayer) == Bit(pointCloudLayer)

\* variant: the render target is left on the default destination
RestoreStateKeepTarget(w, oldLayerMask, oldTarget, oldAutoClear) ==
    [w EXCEPT !.camera.mask = oldLayerMask, !.renderer.autoClear = oldAutoClear]

\* the "restore state" block that ends EDLPass.render
RestoreState(w, oldLayerMask, oldTarget, oldAutoClear) ==
    LET a == [w EXCEPT !.camera.mask = oldLayerMask]
        b == setRenderTarget(a, oldTarget)
    IN  [b EXCEPT !.renderer.autoClear = oldAutoClear]

\* variant: state is restored before the camera-type error is raised
CompositeOrRestoreAndRaise(w, oldLayerMask, oldTarget, oldAutoClear) ==
    IF ~isPerspectiveOrOrthographicCamera(w.camera)
    THEN [RestoreState(w, oldLayerMask, oldTarget, oldAutoClear) EXCEPT !.thrown = TRUE]
    ELSE RestoreState(ScreenPassRender(setRenderTarget([w EXCEPT !.pass.mat.uProj = "camera"],
                                                       "default"), "default"),
                      oldLayerMask, oldTarget, oldAutoClear)

\* EDLPass.render, from the fullscreen pass on: the camera check, the composite, the restore
CompositeAndRestore(w, oldLayerMask, oldTarget, oldAutoClear) ==
    LET u == [w EXCEPT !.pass.mat.screenWidth = w.pass.rt.width,
                       !.pass.mat.screenHeight = w.pass.rt.height,
                       !.pass.mat.edlStrength = w.pass.edlStrength,
                       !.pass.mat.radius = w.pass.radius,
                       !.pass.mat.opacity = w.pass.opacity,
                       !.pass.mat.colorMap = Some(w.pass.rt.gen)]
    IN  IF ~isPerspectiveOrOrthographicCamera(u.camera)
        THEN [u EXCEPT !.thrown = TRUE]
        ELSE LET p == [u EXCEPT !.pass.mat.uProj = "camera"]
                 q == setRenderTarget(p, "default")
                 r == ScreenPassRender(q, "default")
             IN  RestoreState(r, oldLayerMask, oldTarget, oldAutoClear)

\* EDLPass.render(params)
EDLPassRender(w, layerParam) ==
    LET pointCloudLayer == Get(Coalesce(layerParam, Some(DefaultLayer)))
        a == ensureRenderTargetType(w)
        b == resizeToRenderer(a)
        c == IF b.pass.mat.neighbourCount # b.pass.neighbourCount
             THEN SetMaterialNeighbourCount(b, b.pass.neighbourCount)
             ELSE b
        oldAutoClear == c.renderer.autoClear
        d == [c EXCEPT !.renderer.autoClear = FALSE]
        oldTarget == d.renderer.target
        oldLayerMask == d.camera.mask
        e == clear(setRenderTarget(d, "default"))
        f == rendererRender([e EXCEPT !.camera.mask = PassAMask(oldLayerMask, pointCloudLayer)],
                            "scene", PassAMask(oldLayerMask, pointCloudLayer))
        oldClearColor == f.renderer.clearColor
        oldClearAlpha == f.renderer.clearAlpha
        g == [f EXCEPT !.renderer.clearColor = Black, !.renderer.clearAlpha = 1]
        h == clear(setRenderTarget(g, "rtEDL"))
        i == [h EXCEPT !.renderer.clearColor = oldClearColor,
                       !.renderer.clearAlpha = oldClearAlpha,
                       !.camera.mask = PassBMask(pointCloudLayer)]
        j == rendererRender(i, "scene", i.camera.mask)
    IN  CompositeAndRestore(j, oldLayerMask, oldTarget, oldAutoClear)

\* the world one render call works on (pass: the EDLPass record, or None)
World(pass) ==
    [renderer |-> renderer, device |-> device, camera |-> camera, pass |-> pass,
     log |-> <<>>, thrown |-> FALSE]

\* what a call remembers of the state it started in
Snapshot(pass) ==
    [renderer |-> renderer, camera |-> camera,
     rt |-> IF pass = None THEN None ELSE Some(Get(pass).rt)]

(***************************************************************************)
(* PotreeRenderer                                                          *)
(***************************************************************************)
\* the PotreeRenderer object together with the point clouds it writes to
Self ==
    [edlOptions |-> edlOptions, edlPass |-> edlPass, lastPointClouds |-> lastPointClouds,
     overriddenMaterials |-> overriddenMaterials, overriddenLayerMasks |-> overriddenLayerMasks,
     useEDL |-> useEDL, weighted |-> weighted, mask |-> mask, kids |-> kids, writes |-> {},
     made |-> <<>>]

\* new EDLPass(), assigned to this.edlPass; `made` notes whether another EDLPass was held
\* and whether the effect was enabled at that moment
Construct(S) ==
    [S EXCEPT !.edlPass = Some(NewEDLPass),
              !.made = Append(@, [live |-> S.edlPass # None, enabled |-> S.edlOptions.enabled])]

\* field initialisers of PotreeRenderer
InitialOptions ==
    [enabled |-> FALSE, pointCloudLayer |-> Some(DefaultLayer), strength |-> None,
     radius |-> None, opacity |-> None, neighbourCount |-> None]

\* a guarded write of one flag of a material
WriteFlag(S, m, field, value) ==
    IF field = "useEDL"
    THEN IF S.useEDL[m] # value
         THEN [S EXCEPT !.useEDL[m] = value, !.writes = @ \cup {<<m, "useEDL">>}] ELSE S
    ELSE IF S.weighted[m] # value
         THEN [S EXCEPT !.weighted[m] = value, !.writes = @ \cup {<<m, "weighted">>}] ELSE S

\* variant: root and subtree are written whether or not they already carry the mask
setLayerMaskUnguarded(S, p, desiredMask) ==
    [S EXCEPT !.mask[p] = desiredMask,
              !.kids[p] = [i \in 1..Len(S.kids[p]) |-> desiredMask],
              !.writes = @ \cup {<<p, "mask">>, <<p, "kids">>}]

\* variant: only the root is written, the subtree is not traversed
setLayerMaskRootOnly(S, p, desiredMask) ==
    IF S.mask[p] # desiredMask
    THEN [S EXCEPT !.mask[p] = desiredMask, !.writes = @ \cup {<<p, "mask">>}] ELSE S

\* PotreeRenderer.setLayerMaskRecursive(root, desiredMask): the root, then every node traverse visits
setLayerMaskRecursive(S, p, desiredMask) ==
    LET a == IF S.mask[p] # desiredMask
             THEN [S EXCEPT !.mask[p] = desiredMask, !.writes = @ \cup {<<p, "mask">>}] ELSE S
    IN  IF \E i \in 1..Len(a.kids[p]) : a.kids[p][i] # desiredMask
        THEN [a EXCEPT !.kids[p] = [i \in 1..Len(a.kids[p]) |-> desiredMask],
                       !.writes = @ \cup {<<p, "kids">>}]
        ELSE a

\* variant: the flags are read after they were overridden
RememberFlagsAfterOverride(S, m) == [useEDL |-> TRUE, weighted |-> FALSE]

\* what the ledger remembers of a material at its first override
RememberFlags(S, m) == [useEDL |-> S.useEDL[m], weighted |-> S.weighted[m]]

\* applyEDLState, loop body, enabled branch
ApplyEnabled(S, p, desiredMask) ==
    LET m == matOf[p]
        a == IF S.overriddenMaterials[m] = None
             THEN [S EXCEPT !.overriddenMaterials[m] = Some(RememberFlags(S, m))] ELSE S
        b == WriteFlag(a, m, "useEDL", TRUE)
        c == WriteFlag(b, m, "weighted", FALSE)
        d == IF c.overriddenLayerMasks[p] = None
             THEN [c EXCEPT !.overriddenLayerMasks[p] = Some(c.mask[p])] ELSE c
    IN  setLayerMaskRecursive(d, p, desiredMask)

\* applyEDLState, loop body, disabled branch
ApplyDisabled(S, p) ==
    LET m == matOf[p]
        prevMat == S.overriddenMaterials[m]
        a == IF prevMat # None
             THEN WriteFlag(WriteFlag(S, m, "useEDL", Get(prevMat).useEDL),
                            m, "weighted", Get(prevMat).weighted)
             ELSE S
        prevMask == a.overriddenLayerMasks[p]
    IN  IF prevMask # None THEN setLayerMaskRecursive(a, p, Get(prevMask)) ELSE a

\* the for loop of applyEDLState over the point clouds not yet visited; the array is a
\* set here: the loop body touches only the point cloud visited and its material, and two
\* point clouds that share a material write the same values to it, so the order of the
\* visits does not show in the result
RECURSIVE ApplyLoop(_, _, _, _)
ApplyLoop(S, todo, enabled, desiredMask) ==
    IF todo = {} THEN S
    ELSE LET p == CHOOSE q \in todo : TRUE
             next == IF enabled THEN ApplyEnabled(S, p, desiredMask) ELSE ApplyDisabled(S, p)
         IN  ApplyLoop(next, todo \ {p}, enabled, desiredMask)

\* PotreeRenderer.applyEDLState(pointClouds, enabled)
applyEDLState(S, pointClouds, enabled) ==
    LET pointCloudLayer == Get(Coalesce(S.edlOptions.pointCloudLayer, Some(DefaultLayer)))
    IN  ApplyLoop(S, pointClouds, enabled, Bit(pointCloudLayer))

\* variant: an omitted strength is not carried over from the stored options
MergeOptionsDroppingOmitted(cur, options) ==
    [enabled         |-> options.enabled,
     pointCloudLayer |-> Coalesce(options.pointCloudLayer,
                                  Coalesce(cur.pointCloudLayer, Some(DefaultLayer))),
     strength        |-> options.strength,
     radius          |-> Coalesce(options.radius, cur.radius),
     opacity         |-> Coalesce(options.opacity, cur.opacity),
     neighbourCount  |-> Coalesce(options.neighbourCount, cur.neighbourCount)]

\* setEDL: the new edlOptions, each optional field falling back to the stored one
MergeOptions(cur, options) ==
    [enabled         |-> options.enabled,
     pointCloudLayer |-> Coalesce(options.pointCloudLayer,
                                  Coalesce(cur.pointCloudLayer, Some(DefaultLayer))),
     strength        |-> Coalesce(options.strength, cur.strength),
     radius          |-> Coalesce(options.radius, cur.radius),
     opacity         |-> Coalesce(options.opacity, cur.opacity),
     neighbourCount  |-> Coalesce(options.neighbourCount, cur.neighbourCount)]

\* setEDL: copy the defined parameters into the EDLPass
Propagate(pass, o) ==
    [pass EXCEPT !.edlStrength = IF o.strength # None THEN Get(o.strength) ELSE @,
                 !.radius = IF o.radius # None THEN Get(o.radius) ELSE @,
                 !.opacity = IF o.opacity # None THEN Get(o.opacity) ELSE @,
                 !.neighbourCount = IF o.neighbourCount # None THEN Get(o.neighbourCount) ELSE @]

\* variant: state is applied on every call once a set is remembered
ShouldApplyWheneverSetKnown(prevEnabled, nextEnabled, last) == last # None

\* setEDL: the condition under which point-cloud state is applied or restored
ShouldApply(prevEnabled, nextEnabled, last) == prevEnabled # nextEnabled /\ last # None

\* PotreeRenderer.setEDL(options)
setEDL(S, options) ==
    LET prevEnabled == S.edlOptions.enabled
        a == [S EXCEPT !.edlOptions = MergeOptions(S.edlOptions, options)]
        b == IF a.edlOptions.enabled /\ a.edlPass = None
             THEN Construct(a) ELSE a
        c == IF b.edlPass # None
             THEN [b EXCEPT !.edlPass = Some(Propagate(Get(b.edlPass), b.edlOptions))] ELSE b
        nextEnabled == c.edlOptions.enabled
    IN  IF ShouldApply(prevEnabled, nextEnabled, c.lastPointClouds)
        THEN applyEDLState(c, Get(c.lastPointClouds), nextEnabled)
        ELSE c

\* variant: state is applied only when the set differs from the one remembered
RenderApplyOnlyNewSet(S, pointClouds) ==
    IF pointClouds # None /\ pointClouds # S.lastPointClouds
    THEN applyEDLState([S EXCEPT !.lastPointClouds = pointClouds],
                       Get(pointClouds), S.edlOptions.enabled)
    ELSE S

\* PotreeRenderer.render, first half: remember the set and apply or restore state for it
RenderApply(S, pointClouds) ==
    IF pointClouds # None
    THEN applyEDLState([S EXCEPT !.lastPointClouds = pointClouds],
                       Get(pointClouds), S.edlOptions.enabled)
    ELSE S

\* PotreeRenderer.render, second half when enabled: make sure an EDLPass exists
RenderEnsurePass(S) ==
    IF S.edlPass = None
    THEN setEDL(Construct(S), S.edlOptions)
    ELSE S

\* variant: the EDL pipeline runs whenever an EDLPass exists, enabled or not
RenderDrawThroughPass(S) ==
    IF S.edlPass # None
    THEN EDLPassRender(World(Get(S.edlPass)), Some(Get(Coalesce(S.edlOptions.pointCloudLayer,
                                                            Some(DefaultLayer)))))
    ELSE rendererRender(World(None), "scene", camera.mask)

\* PotreeRenderer.render, second half: the draw calls
RenderDraw(S) ==
    IF S.edlOptions.enabled
    THEN EDLPassRender(World(Get(S.edlPass)), Some(Get(Coalesce(S.edlOptions.pointCloudLayer,
                                                            Some(DefaultLayer)))))
    ELSE rendererRender(World(None), "scene", camera.mask)

(***************************************************************************)
(* Inputs                                                                  *)
(***************************************************************************)
ClearColors == {Black, 16777215}   \* 0x000000 and 0xffffff
Layers == {1, 2}
LayerParams == {None} \cup {Some(l) : l \in Layers}
InitMasks == {{0}, {1}, {0, 2}}
NewNodeMask == {0}           \* Object3D.layers of a freshly created node: layer 0
PointCloudSets == {None} \cup {Some(s) : s \in SUBSET PCs}
Follow == {None} \cup {Some(p) : p \in PCs}

Options(e, l, s, r, o, n) ==
    [enabled |-> e, pointCloudLayer |-> l, strength |-> s, radius |-> r, opacity |-> o,
     neighbourCount |-> n]

\* setEDL options that only switch the effect on or off
SwitchOptions == {Options(e, None, None, None, None, None) : e \in BOOLEAN}

\* values assigned to neighbourCount, in units of 1/Scale: -1.5, 0, 0.5, 1, 3, 3.5 and 8
NeighbourCounts ==
    {0 - (Scale + 1), 0, 1, Num(1), Num(3), Num(3) + 1, Num(DefaultNeighbourCount)}

\* alpha values sampled from the offscreen target: 0.0, 0.5, 1.0 and 2.0
Alphas == {0, 5, 10, 20}
NeighbourAlphas == UNION {[1..n -> Alphas] : n \in 1..MaxNeighbours}
\* uniforms of a shader run: strength -1.0, 0.0 or 0.4, radius 0.0 or 1.4, opacity 0.5 or 1.0
Uniforms == [edlStrength : {0 - 10, 0, DefaultStrength}, radius : {0, DefaultRadius},
             opacity : {5, DefaultOpacity}]

\* setEDL options that switch the effect and may move the point clouds to another layer
LayerOptions == {Options(e, l, None, None, None, None) : e \in BOOLEAN, l \in LayerParams}

\* setEDL options that supply any subset of the parameters
ParamOptions ==
    {Options(e, l, s, r, o, n) :
        e \in BOOLEAN, l \in {None, Some(2)}, s \in {None, Some(2), Some(9)},
        r \in {None, Some(20)}, o \in {None, Some(5)},
        n \in {None, Some(0), Some(3 * Scale + 1)}}

RendererStates ==
    [autoClear : BOOLEAN, target : {"default", "user"}, clearColor : ClearColors,
     clearAlpha : {0, 1}]
Cameras ==
    [mask : {{0}, {0, 1}, {0, 1, 2}},
     isPerspectiveCamera : BOOLEAN, isOrthographicCamera : BOOLEAN]
    \ [mask : SUBSET {0, 1, 2}, isPerspectiveCamera : {TRUE}, isOrthographicCamera : {TRUE}]
Viewports == {<<0, 0>>, <<3, 1>>, <<800, 600>>}
PixelRatios == {1, Scale, Scale + 1}
Devices ==
    {[isWebGL2 |-> g, EXT_color_buffer_float |-> f, WEBGL_color_buffer_float |-> wf,
      EXT_color_buffer_half_float |-> h, width |-> v[1], height |-> v[2], dpr |-> d] :
        g \in BOOLEAN, f \in BOOLEAN, wf \in BOOLEAN, h \in BOOLEAN,
        v \in Viewports, d \in PixelRatios}

Perspective == [mask |-> {0, 1}, isPerspectiveCamera |-> TRUE, isOrthographicCamera |-> FALSE]
PlainRenderer == [autoClear |-> TRUE, target |-> "default", clearColor |-> Black, clearAlpha |-> 1]
Desktop ==
    [isWebGL2 |-> TRUE, EXT_color_buffer_float |-> TRUE, WEBGL_color_buffer_float |-> FALSE,
     EXT_color_buffer_half_float |-> TRUE, width |-> 800, height |-> 600, dpr |-> Scale + 1]

(***************************************************************************)
(* History kept for the properties                                         *)
(***************************************************************************)
\* the call, whether it was given a point-cloud set, the layer it rendered with, whether
\* the effect was enabled and whether a set was remembered when it started
Call(op, pcs, layer, prevEnabled, hadSet) ==
    [op |-> op, supplied |-> pcs # None, layer |-> layer, prevEnabled |-> prevEnabled,
     hadSet |-> hadSet]

NothingGiven ==
    [pointCloudLayer |-> None, strength |-> None, radius |-> None, opacity |-> None,
     neighbourCount |-> None]

Latest(new, old) == IF new # None THEN new ELSE old

GivenAfter(g, options) ==
    [pointCloudLayer |-> Latest(options.pointCloudLayer, g.pointCloudLayer),
     strength        |-> Latest(options.strength, g.strength),
     radius          |-> Latest(options.radius, g.radius),
     opacity         |-> Latest(options.opacity, g.opacity),
     neighbourCount  |-> Latest(options.neighbourCount, g.neighbourCount)]

Idle == [phase |-> "idle", pc |-> "-", useEDL |-> FALSE, weighted |-> FALSE, mask |-> {}]

\* the renderer has no ledger entry for the point cloud nor for its material
Untouched(p) == overriddenLayerMasks[p] = None /\ overriddenMaterials[matOf[p]] = None

Armed(p) ==
    [phase |-> "armed", pc |-> p, useEDL |-> useEDL[matOf[p]], weighted |-> weighted[matOf[p]],
     mask |-> mask[p]]

\* setEDL(enabled = true) starts following the point cloud `follow` if it is untouched;
\* setEDL(enabled = false) ends the round trip of the one followed
TripAfterSetEDL(options, follow) ==
    IF options.enabled
    THEN IF follow # None /\ Untouched(Get(follow)) THEN Armed(Get(follow)) ELSE Idle
    ELSE IF trip.phase = "armed" THEN [trip EXCEPT !.phase = "done"] ELSE Idle

\* a render keeps following the point cloud only if it is in the set rendered
TripAfterRender(pointClouds) ==
    IF trip.phase = "armed" /\ pointClouds # None /\ trip.pc \in Get(pointClouds)
    THEN trip ELSE Idle

\* no run of applyEDLState is remembered
NoRun == [last |-> None, again |-> "no", added |-> FALSE]

\* the arguments of a run of applyEDLState, and the layer it read from edlOptions
Run(pointClouds, enabled, layer) == [set |-> pointClouds, enabled |-> enabled, layer |-> layer]

\* after a call that ran applyEDLState as `run` (None if it did not run it): the call
\* repeated the run before it when set and enabled flag are the same and the point clouds
\* were not changed in between, under the "same" layer or "relayered"; `added` tells
\* whether the ledger got a new entry
RanAfter(run, added) ==
    IF run = None THEN [last |-> ran.last, again |-> "no", added |-> FALSE]
    ELSE [last  |-> run,
          again |-> IF ran.last # None /\ Get(ran.last).set = Get(run).set
                                       /\ Get(ran.last).enabled = Get(run).enabled
                    THEN IF Get(ran.last).layer = Get(run).layer THEN "same" ELSE "relayered"
                    ELSE "no",
          added |-> added]

\* no EDLPass was constructed yet; `passes` counts up to two, `disposals` counts the
\* EDLPass.dispose calls on the EDLPass constructed last, up to two
NoLife == [everEnabled |-> FALSE, early |-> FALSE, overlap |-> FALSE, passes |-> 0,
           disposals |-> 0]

\* after a setEDL or render call that ended in S: `early` if an EDLPass was constructed
\* with the effect never enabled so far, `overlap` if one was constructed while another
\* was held
LifeAfterCall(l, S) ==
    [everEnabled |-> l.everEnabled \/ S.edlOptions.enabled,
     early       |-> l.early \/ (~l.everEnabled /\ \E i \in 1..Len(S.made) : ~S.made[i].enabled),
     overlap     |-> l.overlap \/ \E i \in 1..Len(S.made) : S.made[i].live,
     passes      |-> Min(2, l.passes + Len(S.made)),
     disposals   |-> IF S.made = <<>> THEN l.disposals ELSE 0]

\* the run of applyEDLState that setEDL(options) makes, None if it makes none
SetEDLRun(options) ==
    IF ShouldApply(edlOptions.enabled, options.enabled, lastPointClouds)
    THEN Some(Run(Get(lastPointClouds), options.enabled,
                  Get(MergeOptions(edlOptions, options).pointCloudLayer)))
    ELSE None

\* the run of applyEDLState that render({pointClouds}) makes, None if it makes none
RenderRun(pointClouds) ==
    IF pointClouds # None
    THEN Some(Run(Get(pointClouds), edlOptions.enabled,
                  Get(Coalesce(edlOptions.pointCloudLayer, Some(DefaultLayer)))))
    ELSE None

\* the ledger got a new entry in this step
LedgerGrew ==
    <<overriddenMaterials', overriddenLayerMasks'>> # <<overriddenMaterials, overriddenLayerMasks>>

\* the point cloud watched through its enable cycles
Watched == "pcA"
NoBase == [useEDL |-> FALSE, weighted |-> FALSE, mask |-> {}]
NotWatching == [phase |-> "off", base |-> NoBase]
Fresh == [phase |-> "fresh", base |-> NoBase]
Current(p) == [useEDL |-> useEDL[matOf[p]], weighted |-> weighted[matOf[p]], mask |-> mask[p]]

\* phases of the watched point cloud: "fresh" (never overridden), "on1" (overridden),
\* "off1" (overridden, then restored by a disable), "edited" (then changed by the caller
\* while the effect is disabled, and not run over since), "on2" (then overridden by the
\* next enable; base holds what it carried just before that enable), "off2" (then
\* restored by the following disable)
CycleAfterRun(run) ==
    IF cycle.phase = "off" \/ run = None THEN cycle
    ELSE IF Watched \notin Get(run).set THEN cycle
    ELSE IF Get(run).enabled
         THEN CASE cycle.phase = "edited" -> [phase |-> "on2", base |-> Current(Watched)]
                [] cycle.phase = "on2"    -> cycle
                [] OTHER                  -> [phase |-> "on1", base |-> NoBase]
         ELSE CASE cycle.phase = "on2"                  -> [cycle EXCEPT !.phase = "off2"]
                [] cycle.phase \in {"fresh", "off2"}    -> cycle
                [] OTHER                                -> [phase |-> "off1", base |-> NoBase]

\* the caller changed the flags or the mask of the watched point cloud (concerns) or of
\* another one
CycleAfterEdit(concerns) ==
    IF cycle.phase = "off" \/ ~concerns THEN cycle
    ELSE IF cycle.phase \in {"on1", "on2"} THEN [phase |-> "on1", base |-> NoBase]
    ELSE IF cycle.phase \in {"off1", "off2", "edited"} /\ ~edlOptions.enabled
         THEN [phase |-> "edited", base |-> NoBase]
    ELSE cycle

(***************************************************************************)
(* Operations of PotreeRenderer, of EDLPass and of their caller            *)
(***************************************************************************)
Store(S) ==
    /\ edlOptions' = S.edlOptions
    /\ edlPass' = S.edlPass
    /\ lastPointClouds' = S.lastPointClouds
    /\ overriddenMaterials' = S.overriddenMaterials
    /\ overriddenLayerMasks' = S.overriddenLayerMasks
    /\ useEDL' = S.useEDL
    /\ weighted' = S.weighted
    /\ mask' = S.mask
    /\ kids' = S.kids
    /\ writes' = S.writes
    /\ life' = LifeAfterCall(life, S)

\* PotreeRenderer.setEDL(options)
SetEDL(options, follow) ==
    /\ Store(setEDL(Self, options))
    /\ call' = Call("setEDL", None, None, edlOptions.enabled, lastPointClouds # None)
    /\ pre' = Snapshot(edlPass)
    /\ frame' = <<>>
    /\ thrown' = FALSE
    /\ given' = GivenAfter(given, options)
    /\ trip' = TripAfterSetEDL(options, follow)
    /\ ran' = RanAfter(SetEDLRun(options), LedgerGrew)
    /\ cycle' = CycleAfterRun(SetEDLRun(options))
    /\ UNCHANGED pixel
    /\ UNCHANGED <<matOf, renderer, device, camera>>

\* PotreeRenderer.render({renderer, scene, camera, pointClouds})
Render(pointClouds) ==
    LET a == RenderApply(Self, pointClouds)
        b == IF a.edlOptions.enabled THEN RenderEnsurePass(a) ELSE a
        w == RenderDraw(b)
    IN  /\ Store(IF b.edlOptions.enabled THEN [b EXCEPT !.edlPass = Some(w.pass)] ELSE b)
        /\ UNCHANGED pixel
        /\ renderer' = w.renderer
        /\ camera' = w.camera
        /\ frame' = w.log
        /\ thrown' = w.thrown
        /\ call' = Call("render", pointClouds,
                        Coalesce(edlOptions.pointCloudLayer, Some(DefaultLayer)),
                        edlOptions.enabled, lastPointClouds # None)
        /\ pre' = Snapshot(edlPass)
        /\ trip' = TripAfterRender(pointClouds)
        /\ ran' = RanAfter(RenderRun(pointClouds), LedgerGrew)
        /\ cycle' = CycleAfterRun(RenderRun(pointClouds))
        /\ UNCHANGED <<matOf, device, given>>

\* variant: dispose leaves the EDLPass in its field
PassKeptAfterDispose(pass) == pass

\* PotreeRenderer.dispose: this.edlPass = null
PassAfterDispose(pass) == None

\* PotreeRenderer.dispose(): EDLPass.dispose releases the target, the material and the screen pass
Dispose ==
    /\ edlPass' = PassAfterDispose(edlPass)
    /\ life' = [life EXCEPT !.disposals = IF edlPass # None THEN Min(2, @ + 1) ELSE @]
    /\ UNCHANGED pixel
    /\ frame' = IF edlPass = None THEN <<>>
                ELSE <<Ev("dispose", "rtEDL", {}, "-", <<Get(edlPass).rt.gen>>),
                       Ev("dispose", "-", {}, "edlMaterial", <<>>),
                       Ev("dispose", "-", {}, "screenPass", <<>>)>>
    /\ call' = Call("dispose", None, None, edlOptions.enabled, lastPointClouds # None)
    /\ pre' = Snapshot(edlPass)
    /\ thrown' = FALSE
    /\ writes' = {}
    /\ trip' = Idle
    /\ ran' = RanAfter(None, FALSE)
    /\ UNCHANGED cycle
    /\ UNCHANGED <<edlOptions, lastPointClouds, overriddenMaterials, overriddenLayerMasks,
                   matOf, useEDL, weighted, mask, kids, renderer, device, camera, given>>

\* EDLPass.render(params), called on an EDLPass the caller owns
PassRender(layerParam) ==
    LET w == EDLPassRender(World(Get(edlPass)), layerParam)
    IN  /\ edlPass' = Some(w.pass)
        /\ renderer' = w.renderer
        /\ camera' = w.camera
        /\ frame' = w.log
        /\ thrown' = w.thrown
        /\ call' = Call("EDLPass.render", None, Coalesce(layerParam, Some(DefaultLayer)),
                        TRUE, FALSE)
        /\ pre' = Snapshot(edlPass)
        /\ writes' = {}
        /\ trip' = Idle
        /\ ran' = RanAfter(None, FALSE)
        /\ UNCHANGED <<cycle, life, pixel>>
        /\ UNCHANGED <<edlOptions, lastPointClouds, overriddenMaterials, overriddenLayerMasks,
                       matOf, useEDL, weighted, mask, kids, device, given>>

\* edlMaterial.neighbourCount = value
AssignMaterialNeighbourCount(value) ==
    LET w == SetMaterialNeighbourCount(World(Get(edlPass)), value)
    IN  /\ edlPass' = Some(w.pass)
        /\ frame' = w.log
        /\ call' = Call("material.neighbourCount", None, None, edlOptions.enabled,
                        lastPointClouds # None)
        /\ pre' = Snapshot(edlPass)
        /\ thrown' = FALSE
        /\ writes' = {}
        /\ trip' = Idle
        /\ ran' = RanAfter(None, FALSE)
        /\ UNCHANGED <<cycle, life, pixel>>
        /\ UNCHANGED <<edlOptions, lastPointClouds, overriddenMaterials, overriddenLayerMasks,
                       matOf, useEDL, weighted, mask, kids, renderer, device, camera, given>>

\* edlPass.neighbourCount = value
AssignPassNeighbourCount(value) ==
    /\ Get(edlPass).neighbourCount # value
    /\ edlPass' = Some([Get(edlPass) EXCEPT !.neighbourCount = value])
    /\ frame' = <<>>
    /\ call' = Call("EDLPass.neighbourCount", None, None, edlOptions.enabled,
                    lastPointClouds # None)
    /\ pre' = Snapshot(edlPass)
    /\ thrown' = FALSE
    /\ writes' = {}
    /\ trip' = Idle
    /\ ran' = RanAfter(None, FALSE)
    /\ UNCHANGED <<cycle, life, pixel>>
    /\ UNCHANGED <<edlOptions, lastPointClouds, overriddenMaterials, overriddenLayerMasks,
                   matOf, useEDL, weighted, mask, kids, renderer, device, camera, given>>

\* no fragment was shaded yet
NoPixel ==
    [shaded |-> FALSE, alpha |-> 0, neighbours |-> <<>>,
     uniforms |-> [edlStrength |-> 0, radius |-> 0, opacity |-> 0],
     out |-> [discarded |-> FALSE, fragColor |-> None, fragDepth |-> None]]

\* a fragment of the fullscreen quad, with what the shader will sample for it
Fragment(u, alpha, neighbourAlphas) ==
    [NoPixel EXCEPT !.alpha = alpha, !.neighbours = neighbourAlphas, !.uniforms = u]

\* the fragment shader runs on the fragment
Shade ==
    /\ ~pixel.shaded
    /\ pixel' = [pixel EXCEPT !.shaded = TRUE,
                              !.out = main(pixel.uniforms, pixel.alpha, pixel.neighbours)]
    /\ UNCHANGED <<edlOptions, edlPass, lastPointClouds, overriddenMaterials,
                   overriddenLayerMasks, matOf, useEDL, weighted, mask, kids, renderer, device,
                   camera, frame, thrown, call, pre, writes, given, trip, ran, cycle, life>>

\* what every step of the caller leaves behind in the history; a step that changes a point
\* cloud ("stream", "edit") breaks the row of applyEDLState runs
Quiet(op) ==
    /\ call' = Call(op, None, None, edlOptions.enabled, lastPointClouds # None)
    /\ frame' = <<>>
    /\ thrown' = FALSE
    /\ writes' = {}
    /\ ran' = IF op \in {"stream", "edit"} THEN NoRun ELSE RanAfter(None, FALSE)
    /\ UNCHANGED given

\* streaming creates a node under a point cloud
AddKid(p) ==
    /\ Len(kids[p]) < MaxKids
    /\ kids' = [kids EXCEPT ![p] = Append(@, NewNodeMask)]
    /\ Quiet("stream")
    /\ pre' = Snapshot(edlPass)
    /\ UNCHANGED <<trip, cycle, life, pixel>>
    /\ UNCHANGED <<edlOptions, edlPass, lastPointClouds, overriddenMaterials,
                   overriddenLayerMasks, matOf, useEDL, weighted, mask, renderer, device, camera>>

\* the application sets the flags of a material
CallerSetFlags(m, u, wt) ==
    /\ <<useEDL[m], weighted[m]>> # <<u, wt>>
    /\ useEDL' = [useEDL EXCEPT ![m] = u]
    /\ weighted' = [weighted EXCEPT ![m] = wt]
    /\ Quiet("edit")
    /\ pre' = Snapshot(edlPass)
    /\ trip' = Idle
    /\ cycle' = CycleAfterEdit(m = matOf[Watched])
    /\ UNCHANGED <<life, pixel>>
    /\ UNCHANGED <<edlOptions, edlPass, lastPointClouds, overriddenMaterials,
                   overriddenLayerMasks, matOf, mask, kids, renderer, device, camera>>

\* the application moves a point cloud's root to other layers
CallerSetMask(p, mk) ==
    /\ mask[p] # mk
    /\ mask' = [mask EXCEPT ![p] = mk]
    /\ Quiet("edit")
    /\ pre' = Snapshot(edlPass)
    /\ trip' = Idle
    /\ cycle' = CycleAfterEdit(p = Watched)
    /\ UNCHANGED <<life, pixel>>
    /\ UNCHANGED <<edlOptions, edlPass, lastPointClouds, overriddenMaterials,
                   overriddenLayerMasks, matOf, useEDL, weighted, kids, renderer, device, camera>>

\* the application changes the renderer's state or the camera between frames
CallerSetRenderer(r, c) ==
    /\ <<renderer, camera>> # <<r, c>>
    /\ renderer' = r
    /\ camera' = c
    /\ Quiet("caller")
    /\ pre' = [renderer |-> r, camera |-> c,
               rt |-> IF edlPass = None THEN None ELSE Some(Get(edlPass).rt)]
    /\ trip' = Idle
    /\ UNCHANGED <<cycle, life, pixel>>
    /\ UNCHANGED <<edlOptions, edlPass, lastPointClouds, overriddenMaterials,
                   overriddenLayerMasks, matOf, useEDL, weighted, mask, kids, device>>

\* the canvas is resized or moved to a display with another pixel ratio
Resize(v, d) ==
    /\ <<device.width, device.height, device.dpr>> # <<v[1], v[2], d>>
    /\ device' = [device EXCEPT !.width = v[1], !.height = v[2], !.dpr = d]
    /\ Quiet("caller")
    /\ pre' = Snapshot(edlPass)
    /\ trip' = Idle
    /\ UNCHANGED <<cycle, life, pixel>>
    /\ UNCHANGED <<edlOptions, edlPass, lastPointClouds, overriddenMaterials,
                   overriddenLayerMasks, matOf, useEDL, weighted, mask, kids, renderer, camera>>

(***************************************************************************)
(* Initial states                                                          *)
(***************************************************************************)
\* new PotreeRenderer(options): the field initialisers, then setEDL(options.edl) if given
Constructed(ctorEdl) ==
    LET S0 == [edlOptions |-> InitialOptions, edlPass |-> None, lastPointClouds |-> None,
               overriddenMaterials |-> [m \in Mats |-> None],
               overriddenLayerMasks |-> [p \in PCs |-> None],
               useEDL |-> useEDL, weighted |-> weighted, mask |-> mask, kids |-> kids,
               writes |-> {}, made |-> <<>>]
        S == IF ctorEdl # None THEN setEDL(S0, Get(ctorEdl)) ELSE S0
    IN  /\ edlOptions = S.edlOptions
        /\ edlPass = S.edlPass
        /\ lastPointClouds = S.lastPointClouds
        /\ overriddenMaterials = S.overriddenMaterials
        /\ overriddenLayerMasks = S.overriddenLayerMasks
        /\ given = IF ctorEdl # None THEN GivenAfter(NothingGiven, Get(ctorEdl))
                   ELSE NothingGiven
        /\ life = LifeAfterCall(NoLife, S)

\* an EDLPass constructed by the caller, and no PotreeRenderer in play
PassAlone ==
    /\ edlOptions = InitialOptions
    /\ edlPass = Some(NewEDLPass)
    /\ lastPointClouds = None
    /\ overriddenMaterials = [m \in Mats |-> None]
    /\ overriddenLayerMasks = [p \in PCs |-> None]
    /\ given = NothingGiven
    /\ life = NoLife

\* two point clouds with their own materials, freshly loaded
PlainPointClouds ==
    /\ matOf = OwnMaterial
    /\ useEDL = [m \in Mats |-> FALSE]
    /\ weighted = [m \in Mats |-> TRUE]
    /\ mask = [p \in PCs |-> {0}]
    /\ kids = [p \in PCs |-> <<>>]

\* everything but the point clouds and the PotreeRenderer
Surroundings(r, d, c) ==
    /\ renderer = r
    /\ device = d
    /\ camera = c
    /\ frame = <<>>
    /\ thrown = FALSE
    /\ call = Call("new", None, None, FALSE, FALSE)
    /\ pre = [renderer |-> r, camera |-> c, rt |-> None]
    /\ writes = {}
    /\ trip = Idle
    /\ ran = NoRun

(***************************************************************************)
(* Spec: the state coordinator with streaming point clouds.  The first     *)
(* point cloud starts on any of the initial masks.                         *)
(***************************************************************************)
Init ==
    /\ matOf = OwnMaterial
    /\ useEDL = [m \in Mats |-> FALSE]
    /\ weighted = [m \in Mats |-> TRUE]
    /\ mask \in {f \in [PCs -> InitMasks] : f["pcB"] = {0}}
    /\ kids = [p \in PCs |-> <<>>]
    /\ \E ctorEdl \in {None} \cup {Some(o) : o \in SwitchOptions} : Constructed(ctorEdl)
    /\ Surroundings(PlainRenderer, Desktop, Perspective)
    /\ cycle = NotWatching
    /\ pixel = NoPixel

Next ==
    \/ \E options \in SwitchOptions : SetEDL(options, None)
    \/ \E pointClouds \in PointCloudSets : Render(pointClouds)
    \/ Dispose
    \/ \E p \in PCs : AddKid(p)

Spec == Init /\ [][Next]_vars

(***************************************************************************)
(* SpecTrip: enable ... disable round trips.  The first point cloud starts *)
(* with any flags and mask, and may share its material with the second.    *)
(***************************************************************************)
InitTrip ==
    /\ matOf \in {OwnMaterial, SharedMaterial}
    /\ useEDL \in {f \in [Mats -> BOOLEAN] : f["matB"] = FALSE}
    /\ weighted \in {f \in [Mats -> BOOLEAN] : f["matB"] = TRUE}
    /\ mask \in {f \in [PCs -> InitMasks] : f["pcB"] = {0}}
    /\ kids = [p \in PCs |-> <<>>]
    /\ \E ctorEdl \in {None} \cup {Some(o) : o \in SwitchOptions} : Constructed(ctorEdl)
    /\ Surroundings(PlainRenderer, Desktop, Perspective)
    /\ cycle = NotWatching
    /\ pixel = NoPixel

NextTrip ==
    \/ \E options \in SwitchOptions, follow \in Follow : SetEDL(options, follow)
    \/ \E pointClouds \in PointCloudSets : Render(pointClouds)

SpecTrip == InitTrip /\ [][NextTrip]_vars

(***************************************************************************)
(* SpecPlain: PotreeRenderer in front of a renderer and a camera in any    *)
(* state.                                                                  *)
(***************************************************************************)
InitPlain ==
    /\ PlainPointClouds
    /\ Constructed(None)
    /\ \E r \in RendererStates, c \in Cameras : Surroundings(r, Desktop, c)
    /\ cycle = NotWatching
    /\ pixel = NoPixel

NextPlain ==
    \/ \E options \in SwitchOptions : SetEDL(options, None)
    \/ \E pointClouds \in {None, Some({"pcA"})} : Render(pointClouds)
    \/ Dispose

SpecPlain == InitPlain /\ [][NextPlain]_vars

(***************************************************************************)
(* SpecFrame: EDLPass.render called directly, from any renderer and camera *)
(* state.                                                                  *)
(***************************************************************************)
InitFrame ==
    /\ PlainPointClouds
    /\ PassAlone
    /\ \E r \in RendererStates, c \in Cameras : Surroundings(r, Desktop, c)
    /\ cycle = NotWatching
    /\ pixel = NoPixel

NextFrame ==
    \/ \E layerParam \in LayerParams : PassRender(layerParam)
    \/ \E r \in RendererStates, c \in Cameras : CallerSetRenderer(r, c)

SpecFrame == InitFrame /\ [][NextFrame]_vars

(***************************************************************************)
(* SpecTarget: EDLPass.render called directly, on any device and viewport. *)
(***************************************************************************)
InitTarget ==
    /\ PlainPointClouds
    /\ PassAlone
    /\ \E d \in Devices : Surroundings(PlainRenderer, d, Perspective)
    /\ cycle = NotWatching
    /\ pixel = NoPixel

NextTarget ==
    \/ PassRender(None)
    \/ \E v \in Viewports, d \in PixelRatios : Resize(v, d)

SpecTarget == InitTarget /\ [][NextTarget]_vars

(***************************************************************************)
(* SpecParams: setEDL with any subset of the parameters.                   *)
(***************************************************************************)
InitParams ==
    /\ PlainPointClouds
    /\ \E ctorEdl \in {None} \cup {Some(o) : o \in ParamOptions} : Constructed(ctorEdl)
    /\ Surroundings(PlainRenderer, Desktop, Perspective)
    /\ cycle = NotWatching
    /\ pixel = NoPixel

NextParams ==
    \/ \E options \in ParamOptions : SetEDL(options, None)
    \/ Render(None)
    \/ Dispose

SpecParams == InitParams /\ [][NextParams]_vars

(***************************************************************************)
(* SpecApply: the state coordinator while setEDL also changes the          *)
(* point-cloud layer.                                                      *)
(***************************************************************************)
InitApply ==
    /\ PlainPointClouds
    /\ \E ctorEdl \in {None} \cup {Some(o) : o \in LayerOptions} : Constructed(ctorEdl)
    /\ Surroundings(PlainRenderer, Desktop, Perspective)
    /\ cycle = NotWatching
    /\ pixel = NoPixel

NextApply ==
    \/ \E options \in LayerOptions : SetEDL(options, None)
    \/ \E pointClouds \in PointCloudSets : Render(pointClouds)
    \/ \E p \in PCs : AddKid(p)

SpecApply == InitApply /\ [][NextApply]_vars

(***************************************************************************)
(* SpecEdit: the application changes the flags and the mask of a point     *)
(* cloud between enable cycles.                                            *)
(***************************************************************************)
InitEdit ==
    /\ PlainPointClouds
    /\ Constructed(None)
    /\ Surroundings(PlainRenderer, Desktop, Perspective)
    /\ cycle = Fresh
    /\ pixel = NoPixel

NextEdit ==
    \/ \E options \in SwitchOptions : SetEDL(options, None)
    \/ \E pointClouds \in {None, Some({Watched})} : Render(pointClouds)
    \/ \E u \in BOOLEAN, wt \in BOOLEAN : CallerSetFlags(matOf[Watched], u, wt)
    \/ \E mk \in InitMasks : CallerSetMask(Watched, mk)

SpecEdit == InitEdit /\ [][NextEdit]_vars

(***************************************************************************)
(* SpecCount: neighbourCount assigned to the material and to the EDLPass,  *)
(* between frames.                                                         *)
(***************************************************************************)
InitCount ==
    /\ PlainPointClouds
    /\ PassAlone
    /\ Surroundings(PlainRenderer, Desktop, Perspective)
    /\ cycle = NotWatching
    /\ pixel = NoPixel

NextCount ==
    \/ \E value \in NeighbourCounts : AssignMaterialNeighbourCount(value)
    \/ \E value \in NeighbourCounts : AssignPassNeighbourCount(value)
    \/ PassRender(None)

SpecCount == InitCount /\ [][NextCount]_vars

(***************************************************************************)
(* SpecShader: the compositing shader run on any pixel.                    *)
(***************************************************************************)
InitShader ==
    /\ PlainPointClouds
    /\ PassAlone
    /\ Surroundings(PlainRenderer, Desktop, Perspective)
    /\ cycle = NotWatching
    /\ \E u \in Uniforms, alpha \in Alphas, neighbourAlphas \in NeighbourAlphas :
          pixel = Fragment(u, alpha, neighbourAlphas)

NextShader == Shade

SpecShader == InitShader /\ [][NextShader]_vars

(***************************************************************************)
(* SpecSets: render calls given different point-cloud sets from frame to   *)
(* frame, while setEDL switches the effect and changes the layer.  No node *)
(* is streamed in and the caller leaves the point clouds alone.            *)
(***************************************************************************)
InitSets ==
    /\ PlainPointClouds
    /\ \E ctorEdl \in {None} \cup {Some(o) : o \in LayerOptions} : Constructed(ctorEdl)
    /\ Surroundings(PlainRenderer, Desktop, Perspective)
    /\ cycle = Fresh
    /\ pixel = NoPixel

NextSets ==
    \/ \E options \in LayerOptions : SetEDL(options, None)
    \/ \E pointClouds \in PointCloudSets : Render(pointClouds)

SpecSets == InitSets /\ [][NextSets]_vars

(***************************************************************************)
(* Properties                                                              *)
(***************************************************************************)
IsDraw(e) == e.op = "render"
Draws == SelectSeq(frame, IsDraw)
Ops == {frame[i].op : i \in 1..Len(frame)}
\* Layers.test: an object is drawn when its mask and the camera's share a bit
Visible(objectMask, cameraMask) == objectMask \cap cameraMask # {}
\* the masks of the root and of every descendant of a point cloud
NodeMasks(p) == {mask[p]} \cup {kids[p][i] : i \in 1..Len(kids[p])}
Rt == Get(edlPass).rt

\* C1: a point cloud the renderer had not touched (no ledger entry for it or its material)
\* when setEDL(enabled = true) was called, and that was in the set of every render call
\* since, has after setEDL(enabled = false) the useEDL, weighted and layers.mask it had
\* just before the enable.
C1_RoundTripRestores ==
    trip.phase = "done" =>
        /\ useEDL[matOf[trip.pc]] = trip.useEDL
        /\ weighted[matOf[trip.pc]] = trip.weighted
        /\ mask[trip.pc] = trip.mask

\* a round trip that overrode both flags and the mask and wrote them back on disable
C1_Witness ==
    /\ trip.phase = "done"
    /\ call.op = "setEDL"
    /\ trip.useEDL = FALSE
    /\ trip.weighted = TRUE
    /\ trip.mask = {0, 2}
    /\ overriddenLayerMasks[trip.pc] # None
    /\ <<trip.pc, "mask">> \in writes
    /\ <<matOf[trip.pc], "useEDL">> \in writes

\* C2: a render call made while the effect is disabled issues exactly one draw, of the
\* scene, to the destination that was bound, with the camera's own mask; renderer state and
\* camera are as before; no target is bound, cleared, resized or created and the EDLPass,
\* if there is one, is not used.
C2_PlainRenderWhenDisabled ==
    (call.op = "render" /\ ~call.prevEnabled) =>
        /\ Draws = <<Ev("render", pre.renderer.target, pre.camera.mask, "scene", <<>>)>>
        /\ Ops \subseteq {"render", "autoClear"}
        /\ \A i \in 1..Len(frame) : frame[i].target = pre.renderer.target
        /\ renderer = pre.renderer
        /\ camera = pre.camera
        /\ pre.rt = (IF edlPass = None THEN None ELSE Some(Rt))
        /\ ~thrown

\* a disabled render after the effect had been on, to a caller's target, autoClear off
C2_Witness ==
    /\ call.op = "render"
    /\ ~call.prevEnabled
    /\ edlPass # None
    /\ Rt.width > 1
    /\ pre.renderer.target = "user"
    /\ ~pre.renderer.autoClear
    /\ Len(frame) = 1

\* the two scene draws of an EDL frame
PassA == Draws[1]
PassB == Draws[2]

\* C3 as stated: on every render call with the effect enabled, no node of a remembered
\* point cloud's subtree is visible to the camera in Pass A and every one is in Pass B.
C3_IsolatedOnEveryRender ==
    (call.op = "render" /\ call.prevEnabled /\ lastPointClouds # None) =>
        \A p \in Get(lastPointClouds) : \A m \in NodeMasks(p) :
            ~Visible(m, PassA.mask) /\ Visible(m, PassB.mask)

\* C3 amended: on every render call with the effect enabled that is given a point-cloud
\* set, every node of every point cloud of that set, nodes streamed in since the last
\* call included, carries exactly the mask 1 << pointCloudLayer, is not visible to the
\* camera in Pass A and is visible in Pass B.
C3_IsolatedWhenSetSupplied ==
    (call.op = "render" /\ call.prevEnabled /\ call.supplied) =>
        \A p \in Get(lastPointClouds) : \A m \in NodeMasks(p) :
            /\ m = {Get(call.layer)}
            /\ ~Visible(m, PassA.mask)
            /\ Visible(m, PassB.mask)

\* a render that moved a freshly streamed node onto the point-cloud layer
C3_Witness ==
    /\ call.op = "render"
    /\ call.prevEnabled
    /\ call.supplied
    /\ \E p \in Get(lastPointClouds) :
          /\ Len(kids[p]) > 0
          /\ writes = {<<p, "kids">>}
    /\ Len(Draws) = 3

\* C4: after an EDLPass.render call that returns normally, the camera's mask, the bound
\* render target, autoClear, the clear colour and the clear alpha are what they were when
\* the call started.
C4_PassRestoresState ==
    (call.op = "EDLPass.render" /\ ~thrown) =>
        /\ camera.mask = pre.camera.mask
        /\ renderer.target = pre.renderer.target
        /\ renderer.autoClear = pre.renderer.autoClear
        /\ renderer.clearColor = pre.renderer.clearColor
        /\ renderer.clearAlpha = pre.renderer.clearAlpha

\* a frame started with a caller's target bound, autoClear off and a clear colour of its own
C4_Witness ==
    /\ call.op = "EDLPass.render"
    /\ ~thrown
    /\ Len(Draws) = 3
    /\ pre.renderer.target = "user"
    /\ ~pre.renderer.autoClear
    /\ pre.renderer.clearColor # Black
    /\ pre.renderer.clearAlpha = 0
    /\ pre.camera.mask = {0, 1, 2}

\* C5: an EDLPass.render call that returns normally draws exactly three times, in this
\* order: the scene to the default destination with the camera's mask less the point-cloud
\* bit, the scene to the offscreen target with the point-cloud bit alone, the fullscreen
\* quad to the default destination.
C5_ThreeDrawsInOrder ==
    (call.op = "EDLPass.render" /\ ~thrown) =>
        /\ Len(Draws) = 3
        /\ Draws[1].what = "scene"
        /\ Draws[1].target = "default"
        /\ Draws[1].mask = {b \in pre.camera.mask : b # Get(call.layer)}
        /\ Draws[2].what = "scene"
        /\ Draws[2].target = "rtEDL"
        /\ Draws[2].mask = {Get(call.layer)}
        /\ Draws[3].what = "quad"
        /\ Draws[3].target = "default"

\* a frame whose camera saw the point-cloud layer, started with a caller's target bound
C5_Witness ==
    /\ call.op = "EDLPass.render"
    /\ ~thrown
    /\ call.layer = Some(2)
    /\ pre.camera.mask = {0, 1, 2}
    /\ pre.renderer.target = "user"
    /\ Len(Draws) = 3

\* C6: EDLPass.render raises exactly when the camera is neither a perspective nor an
\* orthographic camera, and then the fullscreen quad is not drawn in that frame.
C6_CameraTypeError ==
    call.op = "EDLPass.render" =>
        /\ thrown <=> (~pre.camera.isPerspectiveCamera /\ ~pre.camera.isOrthographicCamera)
        /\ thrown => \A i \in 1..Len(frame) : frame[i].what # "quad"

\* a frame that raised after its two scene draws
C6_Witness ==
    /\ call.op = "EDLPass.render"
    /\ thrown
    /\ ~pre.camera.isPerspectiveCamera
    /\ ~pre.camera.isOrthographicCamera
    /\ Len(Draws) = 2

HasFloat == device.EXT_color_buffer_float \/ device.WEBGL_color_buffer_float
HasHalfFloat == device.EXT_color_buffer_half_float

FloorOfProduct(size, dpr) ==
    CHOOSE k \in 0..(size * dpr) : k * Scale <= size * dpr /\ size * dpr < (k + 1) * Scale
WantedWidth == Max(1, FloorOfProduct(device.width, device.dpr))
WantedHeight == Max(1, FloorOfProduct(device.height, device.dpr))

\* C8: after every EDLPass.render call the offscreen target is max(1, floor(width * ratio))
\* by max(1, floor(height * ratio)), and setSize was called in that frame exactly when one
\* of the two differed from the size the target had.
C8_TargetMatchesViewport ==
    call.op = "EDLPass.render" =>
        /\ Rt.width = WantedWidth
        /\ Rt.height = WantedHeight
        /\ "setSize" \in Ops <=>
              (Get(pre.rt).width # WantedWidth \/ Get(pre.rt).height # WantedHeight)

\* 800 x 600 at ratio 1.5: the target became 1200 x 900
C8_Witness ==
    /\ call.op = "EDLPass.render"
    /\ device.width = 800
    /\ device.height = 600
    /\ device.dpr * 2 = 3 * Scale
    /\ Rt.width = 1200
    /\ Rt.height = 900
    /\ "setSize" \in Ops

\* the value of a parameter that the calls so far leave in effect
InEffect(g, default) == IF g # None THEN Get(g) ELSE default

\* C9: each parameter is the one given by the last setEDL call that supplied it, or its
\* default: in edlOptions, in the EDLPass whenever there is one, and in the layer and the
\* uniforms that an enabled render uses.
C9_ParamsLatestOrDefault ==
    /\ edlOptions.pointCloudLayer = Some(InEffect(given.pointCloudLayer, 1))
    /\ edlOptions.strength = given.strength
    /\ edlOptions.radius = given.radius
    /\ edlOptions.opacity = given.opacity
    /\ edlOptions.neighbourCount = given.neighbourCount
    /\ edlPass # None =>
          /\ Get(edlPass).edlStrength = InEffect(given.strength, 4)
          /\ Get(edlPass).radius = InEffect(given.radius, 14)
          /\ Get(edlPass).opacity = InEffect(given.opacity, 10)
          /\ Get(edlPass).neighbourCount = InEffect(given.neighbourCount, 8 * Scale)
    /\ (call.op = "render" /\ call.prevEnabled) =>
          /\ call.layer = Some(InEffect(given.pointCloudLayer, 1))
          /\ Draws[2].mask = {InEffect(given.pointCloudLayer, 1)}
          /\ Get(edlPass).mat.edlStrength = InEffect(given.strength, 4)
          /\ Get(edlPass).mat.radius = InEffect(given.radius, 14)
          /\ Get(edlPass).mat.opacity = InEffect(given.opacity, 10)

\* an enabled render after strength 0.9 and layer 2 were given and radius never was
C9_Witness ==
    /\ call.op = "render"
    /\ call.prevEnabled
    /\ given.strength = Some(9)
    /\ given.pointCloudLayer = Some(2)
    /\ given.radius = None
    /\ given.neighbourCount = Some(0)
    /\ Get(edlPass).mat.edlStrength = 9
    /\ Get(edlPass).mat.radius = 14
    /\ Draws[2].mask = {2}

\* the point clouds of the remembered set carry the state that goes with `enabled`
Applied(enabled) ==
    \A p \in Get(lastPointClouds) :
        IF enabled
        THEN /\ useEDL[matOf[p]] = TRUE
             /\ weighted[matOf[p]] = FALSE
             /\ NodeMasks(p) = {{Get(call.layer)}}
             /\ overriddenLayerMasks[p] # None
             /\ overriddenMaterials[matOf[p]] # None
        ELSE /\ overriddenLayerMasks[p] # None =>
                 NodeMasks(p) = {Get(overriddenLayerMasks[p])}
             /\ overriddenMaterials[matOf[p]] # None =>
                 /\ useEDL[matOf[p]] = Get(overriddenMaterials[matOf[p]]).useEDL
                 /\ weighted[matOf[p]] = Get(overriddenMaterials[matOf[p]]).weighted

\* C10: a setEDL call writes to point clouds only if it changes the enabled flag and a
\* point-cloud set is remembered; and every render call that is given a set leaves that
\* set in the state of the current enabled flag, which is where a toggle made before any
\* set was known takes effect.
C10_SetEDLWritesOnToggle ==
    /\ (call.op = "setEDL" /\ writes # {}) =>
          (call.prevEnabled # edlOptions.enabled /\ call.hadSet)
    /\ (call.op = "render" /\ call.supplied) => Applied(call.prevEnabled)

\* the first render that is given a set, after the effect was switched on with no set known
C10_Witness ==
    /\ call.op = "render"
    /\ call.supplied
    /\ ~call.hadSet
    /\ call.prevEnabled
    /\ lastPointClouds = Some(PCs)
    /\ writes # {}

\* C11 as stated: when applyEDLState runs twice in a row with the same enabled flag and the
\* same point-cloud set, and no point cloud was changed in between, the second run writes
\* no useEDL, weighted or layers.mask and adds no ledger entry.
C11_SecondRunWritesNothing ==
    ran.again # "no" => (writes = {} /\ ~ran.added)

\* C11 amended: the same, for two runs that also read the same pointCloudLayer from
\* edlOptions.
C11_SecondRunSameLayerWritesNothing ==
    ran.again = "same" => (writes = {} /\ ~ran.added)

\* an enabled render of both point clouds, one with a streamed node, right after the same
C11_Witness ==
    /\ ran.again = "same"
    /\ call.op = "render"
    /\ Get(ran.last) = Run(PCs, TRUE, 2)
    /\ \E p \in PCs : Len(kids[p]) > 0
    /\ NodeMasks("pcA") = {{2}}

\* C12: a point cloud that was overridden and restored, and whose flags or mask the caller
\* then changed while the effect was disabled, carries after the next enable and the
\* disable that follows it the flags and the mask it had just before that second enable.
C12_ReenableTakesNewBaseline ==
    cycle.phase = "off2" => Current(Watched) = cycle.base

\* C13: no EDLPass is constructed while the effect has never been enabled; none is
\* constructed while another is held, so at most one is live; and EDLPass.dispose is called
\* at most once on each, however often PotreeRenderer.dispose is called.
C13_PassLifecycle ==
    /\ ~life.early
    /\ ~life.overlap
    /\ life.disposals <= 1
    /\ edlPass # None => (life.everEnabled /\ life.passes >= 1 /\ life.disposals = 0)
    /\ ~life.everEnabled => life.passes = 0

\* dispose called again after the second EDLPass was constructed and disposed of
C13_Witness ==
    /\ call.op = "dispose"
    /\ pre.rt = None
    /\ frame = <<>>
    /\ edlPass = None
    /\ life.passes = 2
    /\ life.disposals = 1

Material == Get(edlPass).mat
\* the integer k with k <= x < k + 1, for x in units of 1/Scale
FloorOf(x) == CHOOSE k \in -8..8 : k * Scale <= x /\ x < (k + 1) * Scale
Regenerated == "updateShaderSource" \in Ops

\* C14: after the constructor and after every assignment to neighbourCount, zero, negative
\* and fractional values included, the material's neighbourCount is an integer >= 1 equal
\* to max(1, floor(last value assigned)), 8 if none was, the neighbour table has twice as
\* many entries, and NEIGHBOUR_COUNT in the vertex and in the fragment shader source is
\* that count.
C14_NeighbourCountNormalised ==
    edlPass # None =>
        /\ Material.neighbourCount % Scale = 0
        /\ Material.neighbourCount \div Scale >= 1
        /\ Material.neighbourCount \div Scale =
              (IF Material.assigned = None THEN 8 ELSE Max(1, FloorOf(Get(Material.assigned))))
        /\ Material.neighboursLen = 2 * (Material.neighbourCount \div Scale)
        /\ Material.vertexShader = Material.neighbourCount
        /\ Material.fragmentShader = Material.neighbourCount

\* -1.5 assigned to the material: it counts 1, with a table of 2, and was rebuilt
C14_Witness ==
    /\ call.op = "material.neighbourCount"
    /\ Material.assigned = Some(0 - (Scale + 1))
    /\ Material.neighbourCount = Num(1)
    /\ Material.neighboursLen = 2
    /\ frame = <<Ev("updateShaderSource", "-", {}, "-", <<1>>)>>

\* C20: an assignment to the material's neighbourCount, made directly or by EDLPass.render,
\* rebuilds the table and regenerates the shader source exactly when max(1, floor(value))
\* differs from the count the material has; and an EDLPass.render call that follows
\* another one, EDLPass.neighbourCount unchanged, regenerates nothing, also when that value
\* is 0, negative or fractional.
C20_RebuildOnlyOnChange ==
    [][/\ call'.op = "material.neighbourCount" =>
             (Regenerated' <=>
                 Max(1, FloorOf(Get(Material'.assigned))) # Material.neighbourCount \div Scale)
       /\ call'.op = "EDLPass.render" =>
             (Regenerated' <=>
                 Max(1, FloorOf(Get(edlPass).neighbourCount)) # Material.neighbourCount \div Scale)
       /\ (call.op = "EDLPass.render" /\ call'.op = "EDLPass.render") => ~Regenerated'
      ]_vars

\* a frame drawn with EDLPass.neighbourCount = 0 and a material that already counts 1
C20_Witness ==
    /\ call.op = "EDLPass.render"
    /\ Get(edlPass).neighbourCount = 0
    /\ Material.assigned = Some(0)
    /\ Material.neighbourCount = Num(1)
    /\ ~Regenerated
    /\ Len(Draws) = 3

\* C15: a fragment whose sampled alpha is exactly 1.0 is discarded, writing no colour and
\* no depth, whatever the strength, the radius, the opacity, the neighbour count and the
\* neighbours' alpha values.
C15_BackgroundDiscarded ==
    (pixel.shaded /\ pixel.alpha = 10) =>
        /\ pixel.out.discarded
        /\ pixel.out.fragColor = None
        /\ pixel.out.fragDepth = None

\* a background fragment among neighbours with valid depths, under a negative strength
C15_Witness ==
    /\ pixel.shaded
    /\ pixel.alpha = 10
    /\ pixel.uniforms.edlStrength < 0
    /\ Len(pixel.neighbours) = MaxNeighbours
    /\ \A i \in 1..Len(pixel.neighbours) : pixel.neighbours[i] \notin {0, 10}
    /\ pixel.out.discarded

\* C16: when PotreeRenderer.render is given a point-cloud set and runs the EDL pipeline,
\* every point cloud of the set has useEDL = true and weighted = false, and its root and
\* all its descendants carry the mask 1 << pointCloudLayer of the layer configured, which is
\* the layer Pass B draws.  (EDLPass.render writes to no point cloud, so what they carry
\* when it starts is what they carry when the call returns.)
C16_SetReadyForPasses ==
    (call.op = "render" /\ call.supplied /\ call.prevEnabled) =>
        /\ Len(Draws) = 3
        /\ PassB.mask = Bit(Get(edlOptions.pointCloudLayer))
        /\ \A p \in Get(lastPointClouds) :
              /\ useEDL[matOf[p]] = TRUE
              /\ weighted[matOf[p]] = FALSE
              /\ mask[p] = Bit(Get(edlOptions.pointCloudLayer))
              /\ \A i \in 1..Len(kids[p]) : kids[p][i] = Bit(Get(edlOptions.pointCloudLayer))

\* both point clouds, each with a streamed node, rendered with layer 2 configured
C16_Witness ==
    /\ call.op = "render"
    /\ call.supplied
    /\ call.prevEnabled
    /\ edlOptions.pointCloudLayer = Some(2)
    /\ lastPointClouds = Some(PCs)
    /\ \A p \in PCs : Len(kids[p]) > 0
    /\ {<<"pcA", "mask">>, <<"pcB", "kids">>} \subseteq writes
    /\ PassB.mask = {2}

\* positions in the frame of the clears (explicit, or implied by autoClear) and of the draws
ClearsAt == {i \in 1..Len(frame) : frame[i].op \in {"clear", "autoClear"}}
DrawsAt == {i \in 1..Len(frame) : IsDraw(frame[i])}
FirstDrawAt == CHOOSE i \in DrawsAt : \A j \in DrawsAt : i <= j
LastDrawAt == CHOOSE i \in DrawsAt : \A j \in DrawsAt : j <= i

\* C17: in one EDLPass.render call the default destination is cleared exactly once, before
\* Pass A draws; the only other clear is of the offscreen target, between Pass A and
\* Pass B; nothing clears the default destination between Pass A's draw and Pass C's; and
\* no draw of the call runs with autoClear on (a draw with autoClear on would clear the
\* bound destination first).
C17_ClearsPerFrame ==
    call.op = "EDLPass.render" =>
        /\ \A i \in ClearsAt : frame[i].op = "clear"
        /\ Cardinality({i \in ClearsAt : frame[i].target = "default"}) = 1
        /\ \A i \in ClearsAt : frame[i].target = "default" => i < FirstDrawAt
        /\ Cardinality({i \in ClearsAt : frame[i].target # "default"}) = 1
        /\ \A i \in ClearsAt : frame[i].target # "default" =>
              /\ frame[i].target = "rtEDL"
              /\ frame[i - 1] = Ev("setRenderTarget", "rtEDL", {}, "-", <<>>)
              /\ FirstDrawAt < i
              /\ \A j \in DrawsAt \ {FirstDrawAt} : i < j
        /\ \A i \in FirstDrawAt..LastDrawAt : i \in ClearsAt => frame[i].target = "rtEDL"

\* a frame that started with autoClear on, a caller's target bound and a white clear colour
C17_Witness ==
    /\ call.op = "EDLPass.render"
    /\ ~thrown
    /\ pre.renderer.autoClear
    /\ pre.renderer.target = "user"
    /\ pre.renderer.clearColor # Black
    /\ Cardinality(ClearsAt) = 2
    /\ Cardinality(DrawsAt) = 3
    /\ LastDrawAt > FirstDrawAt + 4

\* C18: on one EDLPass, only the first render call queries the extensions; the target is
\* disposed of and created anew only in that call and only if the type wanted differs from
\* the type it has, hence at most once; the new target has the width and height of the one
\* it replaces, which is disposed of first.  (The first call is the one that finds the
\* colorMap uniform still null.)
C18_ProbeOnceRecreateOnce ==
    [][call'.op = "EDLPass.render" =>
         LET first == Material.colorMap = None
             disposed == {i \in 1..Len(frame') : frame'[i].op = "dispose"}
             created == {i \in 1..Len(frame') : frame'[i].op = "create"}
         IN  /\ "getExtension" \in Ops' => first
             /\ (disposed # {} \/ created # {}) =>
                   /\ first
                   /\ Rt'.type # Rt.type
                   /\ Cardinality(disposed) = 1
                   /\ Cardinality(created) = 1
                   /\ \A i \in disposed : \A j \in created :
                         /\ i < j
                         /\ frame'[i].arg = <<Rt.gen, Rt.width, Rt.height>>
                         /\ frame'[j].arg = <<Rt.gen + 1, Rt.width, Rt.height>>
             /\ Rt'.gen = (IF created # {} THEN Rt.gen + 1 ELSE Rt.gen)
             /\ Rt'.type # Rt.type => created # {}
             /\ Rt'.gen <= 1
      ]_vars

\* a later frame on a target that the first frame recreated: resized, not probed again
C18_Witness ==
    /\ call.op = "EDLPass.render"
    /\ Rt.gen = 1
    /\ Rt.type = "FloatType"
    /\ "setSize" \in Ops
    /\ Ops \cap {"getExtension", "dispose", "create"} = {}
    /\ Len(Draws) = 3

\* C19: when EDLPass.render raises the camera-type error nothing is restored: the camera's
\* mask is 1 << pointCloudLayer, the offscreen target is bound, autoClear is false
\* whatever it was, and Pass A and Pass B have been drawn.
C19_NothingRestoredOnError ==
    (call.op = "EDLPass.render" /\ thrown) =>
        /\ camera.mask = Bit(Get(call.layer))
        /\ renderer.target = "rtEDL"
        /\ renderer.autoClear = FALSE
        /\ Len(Draws) = 2
        /\ PassA = Ev("render", "default", pre.camera.mask \ Bit(Get(call.layer)), "scene", <<>>)
        /\ PassB = Ev("render", "rtEDL", Bit(Get(call.layer)), "scene", <<>>)

\* the error raised in a frame that started with autoClear on and a caller's target bound
C19_Witness ==
    /\ call.op = "EDLPass.render"
    /\ thrown
    /\ pre.renderer.autoClear
    /\ pre.renderer.target = "user"
    /\ pre.camera.mask = {0, 1, 2}
    /\ call.layer = Some(2)
    /\ camera.mask = {2}
    /\ ~renderer.autoClear

\* what the ledger remembers of a point cloud, nothing recorded read as NoBase
Remembered(p) ==
    IF overriddenMaterials[matOf[p]] = None \/ overriddenLayerMasks[p] = None THEN NoBase
    ELSE [useEDL   |-> Get(overriddenMaterials[matOf[p]]).useEDL,
          weighted |-> Get(overriddenMaterials[matOf[p]]).weighted,
          mask     |-> Get(overriddenLayerMasks[p])]

\* the effect is disabled and applyEDLState has run with enabled = false since
DisableApplied == ~edlOptions.enabled /\ ran.last # None /\ ~Get(ran.last).enabled

\* C21: once the effect has been disabled, by setEDL or by a render call made while
\* disabled, a point cloud that was overridden while the effect was enabled carries the
\* flags and the mask the ledger remembers for it, on its root and on every descendant,
\* also when it was in the set of an earlier render call and not in the one given last.
C21_DisableRestoresEveryOverridden ==
    (DisableApplied /\ cycle.phase # "fresh") =>
        /\ Current(Watched) = Remembered(Watched)
        /\ NodeMasks(Watched) = {Remembered(Watched).mask}

\* the watched point cloud was restored by a disable and the effect has stayed disabled
\* since; the caller may have changed its flags or its mask after the restore
RestoredAndStillDisabled == cycle.phase \in {"off1", "edited", "off2"} /\ ~edlOptions.enabled

\* C22: a render call that is given the point cloud while the effect has stayed disabled
\* since its restore changes neither its useEDL, its weighted nor the mask of its root or
\* of any of its descendants, whatever the caller has set them to since the restore.
C22_DisabledRenderLeavesRestored ==
    [][(RestoredAndStillDisabled /\ call'.op = "render" /\ call'.supplied)
          => /\ useEDL'[matOf[Watched]] = useEDL[matOf[Watched]]
             /\ weighted'[matOf[Watched]] = weighted[matOf[Watched]]
             /\ mask'[Watched] = mask[Watched]
             /\ kids'[Watched] = kids[Watched]]_vars

\* C23: in every EDLPass.render call that PotreeRenderer.render makes, the layer taken out
\* of the camera's mask for Pass A and drawn alone in Pass B is the layer that the root and
\* every descendant of each remembered point cloud carry, whatever setEDL calls changed
\* pointCloudLayer while the effect was enabled and whether or not the render calls were
\* given a point-cloud set.
C23_BucketIsLayerCarried ==
    (call.op = "render" /\ call.prevEnabled /\ lastPointClouds # None) =>
        \E l \in Layers :
            /\ PassA.mask = pre.camera.mask \ Bit(l)
            /\ PassB.mask = Bit(l)
            /\ \A p \in Get(lastPointClouds) : NodeMasks(p) = {Bit(l)}

====
